---------------------------- MODULE Spec2Model ----------------------------
(***************************************************************************)
(* A model of script/branding-check.py: the branding validator.            *)
(*                                                                         *)
(* Strings.  A Python str is a sequence of atoms.  An atom is one          *)
(* character ("#", "a", " ", ".") or an indivisible run of characters that *)
(* holds none of the characters the operations applied to that string      *)
(* look at (no "." in a key name that is split on ".", no whitespace, no   *)
(* quote or backslash).  Concatenation is \o, so formatting, splitting,    *)
(* trimming, repr() and regular-expression matching are computed atom by   *)
(* atom as the code computes them character by character.                  *)
(*                                                                         *)
(* JSON values.  A parsed value is a record tagged with its Python type:   *)
(* None (JSON null; also what get_by_path returns for "not found"), bool,  *)
(* number, str, list, dict.  A dict's payload is a function from keys      *)
(* (strings) to values.                                                    *)
(*                                                                         *)
(* File system.  The repo root is the set `files` of the relative path     *)
(* strings p for which os.path.isfile(os.path.join(repo_root, p)) is true; *)
(* `content[env]` is what json.load does on {env}.json: it raises, or it   *)
(* returns a value.  The program only reads them.                          *)
(***************************************************************************)
EXTENDS Integers, Sequences, FiniteSets, TLC

VARIABLES
    files,              \* relative paths at which a regular file exists
    content,            \* env -> what load_json does on {env}.json
    argv_env,           \* --env: "production", "staging" or "both"
    check_logo_files,   \* --check-logo-files
    pc,                 \* position in main: "parse", "loop", "done"
    todo,               \* the environments the for loop has yet to visit
    env,                \* the loop variable of main ("none" before the loop)
    missing_files,      \* main's local, as of the last loop iteration
    json_issues,        \* main's local, as of the last loop iteration
    all_errors,         \* main's accumulator of report lines
    stdout,             \* the lines printed on standard output
    stderr,             \* the messages printed on the error stream
    ret,                \* main's return value ("none" while it runs)
    call                \* a direct call of get_by_path: its arguments and result

vars == <<files, content, argv_env, check_logo_files, pc, todo, env,
          missing_files, json_issues, all_errors, stdout, stderr, ret, call>>

-----------------------------------------------------------------------------
(* Bounds of the model.                                                    *)

\* how many required files may be absent at once
MaxMissing == 2
\* how many required keys of a config deviate from the clean config at once
MaxDefects == 2
\* the most digits a colour string tried has after its "#"
MaxColorLen == 7
\* the longest logo value tried, in characters
MaxLogoLen == 2
\* the longest dotted path handed to get_by_path directly, in characters
MaxPathLen == 4

-----------------------------------------------------------------------------
(* Python values.                                                          *)

None == [t |-> "NoneType"]
JBool(b) == [t |-> "bool", v |-> b]
JNum(n) == [t |-> "int", v |-> n]
JStr(s) == [t |-> "str", v |-> s]
JList(l) == [t |-> "list", v |-> l]
JDict(f) == [t |-> "dict", v |-> f]
EmptyDict == JDict([k \in {} |-> None])

\* isinstance(v, T)
isinstance(v, T) == v.t = T

\* str.strip() removes these from both ends (the ASCII whitespace)
Whitespace == {" ", "\t", "\n", "\r", "\f"}

RECURSIVE lstrip(_)
lstrip(s) ==
    IF s # <<>> /\ Head(s) \in Whitespace THEN lstrip(Tail(s)) ELSE s

RECURSIVE rstrip(_)
rstrip(s) ==
    IF s # <<>> /\ s[Len(s)] \in Whitespace
    THEN rstrip(SubSeq(s, 1, Len(s) - 1))
    ELSE s

\* s.strip()
strip(s) == rstrip(lstrip(s))

\* s.split(sep): the pieces between the occurrences of sep, empty pieces kept
RECURSIVE split(_, _)
split(s, sep) ==
    IF \E i \in 1..Len(s) : s[i] = sep
    THEN LET i == CHOOSE j \in 1..Len(s) :
                      s[j] = sep /\ \A k \in 1..(j - 1) : s[k] # sep
         IN  <<SubSeq(s, 1, i - 1)>> \o split(SubSeq(s, i + 1, Len(s)), sep)
    ELSE <<s>>

\* sep.join(lines)
RECURSIVE join(_, _)
join(sep, lines) ==
    IF lines = <<>> THEN <<>>
    ELSE IF Len(lines) = 1 THEN lines[1]
    ELSE lines[1] \o <<sep>> \o join(sep, Tail(lines))

\* repr() of a str of printable characters holding no quote and no backslash
repr(s) == <<"'">> \o s \o <<"'">>

\* env.upper()
upper(e) ==
    CASE e = "production" -> "PRODUCTION"
      [] e = "staging" -> "STAGING"
      [] OTHER -> e

-----------------------------------------------------------------------------
(* The fixed tables.                                                       *)

Envs == {"production", "staging"}

HexDigits ==
    {"0", "1", "2", "3", "4", "5", "6", "7", "8", "9",
     "A", "B", "C", "D", "E", "F", "a", "b", "c", "d", "e", "f"}

\* the {6} of HEX_COLOR_RE
HexLen == 6

\* a variant of HEX_COLOR_RE_match for ^#[0-9A-F]{6}$
HEX_COLOR_RE_match_upper(s) ==
    /\ Len(s) >= HexLen + 1
    /\ s[1] = "#"
    /\ \A i \in 2..(HexLen + 1) : s[i] \in HexDigits \ {"a", "b", "c", "d", "e", "f"}
    /\ \/ Len(s) = HexLen + 1
       \/ Len(s) = HexLen + 2 /\ s[HexLen + 2] = "\n"

\* HEX_COLOR_RE.match(s): ^#[0-9A-Fa-f]{6}$, where $ also matches just
\* before a newline that ends the string
HEX_COLOR_RE_match(s) ==
    /\ Len(s) >= HexLen + 1
    /\ s[1] = "#"
    /\ \A i \in 2..(HexLen + 1) : s[i] \in HexDigits
    /\ \/ Len(s) = HexLen + 1
       \/ Len(s) = HexLen + 2 /\ s[HexLen + 2] = "\n"

Dotted(a, b) == <<a, ".", b>>

REQUIRED_JSON_PATHS == <<
    Dotted("identifiers", "androidBundleId"),
    Dotted("identifiers", "iosBundleId"),
    Dotted("identifiers", "webAppDomain"),
    Dotted("identifiers", "deepLinkScheme"),
    Dotted("api", "apiBaseUrl"),
    Dotted("api", "apiVersion"),
    Dotted("api", "websocketUrl"),
    Dotted("api", "cdnBaseUrl"),
    Dotted("api", "imageBaseUrl"),
    Dotted("branding", "appName"),
    Dotted("branding", "companyName"),
    Dotted("branding", "primaryColor"),
    Dotted("branding", "accentColor"),
    Dotted("branding", "logoUrl"),
    Dotted("branding", "logoDarkUrl"),
    Dotted("branding", "supportEmail"),
    Dotted("branding", "supportUrl"),
    Dotted("branding", "privacyPolicyUrl"),
    Dotted("branding", "termsUrl"),
    Dotted("stores", "iosAppStoreId"),
    Dotted("stores", "androidPlayStoreId") >>

AppIcon(name) ==
    <<"asset/", "{env}", "/appicon/Assets.xcassets/AppIcon.appiconset/", name>>
Launcher(density) ==
    <<"asset/", "{env}", "/appicon/android/", density, "/ic_launcher.png">>

REQUIRED_FILES_BY_ENV == <<
    <<"{env}", ".json">>,
    AppIcon("Contents.json"),
    AppIcon("29.png"),
    AppIcon("40.png"),
    AppIcon("57.png"),
    AppIcon("58.png"),
    AppIcon("60.png"),
    AppIcon("80.png"),
    AppIcon("87.png"),
    AppIcon("1024.png"),
    AppIcon("114.png"),
    AppIcon("120.png"),
    AppIcon("180.png"),
    <<"asset/", "{env}", "/appicon/appstore.png">>,
    <<"asset/", "{env}", "/appicon/playstore.png">>,
    Launcher("mipmap-mdpi"),
    Launcher("mipmap-hdpi"),
    Launcher("mipmap-xhdpi"),
    Launcher("mipmap-xxhdpi"),
    Launcher("mipmap-xxxhdpi"),
    <<"asset/", "{env}", "/fonts/brand.ttf">>,
    <<"asset/", "{env}", "/splashscreen/splashscreen.png">> >>

\* rel.format(env=env)
format(rel, e) ==
    [i \in 1..Len(rel) |-> IF rel[i] = "{env}" THEN e ELSE rel[i]]

\* os.path.isfile(os.path.join(repo_root, rel_path))
isfile(fs, rel_path) == rel_path \in fs

-----------------------------------------------------------------------------
(* The functions of the script.                                            *)

\* the loop of get_by_path over the parts left
RECURSIVE get_by_parts(_, _)
get_by_parts(cur, parts) ==
    IF parts = <<>> THEN cur
    ELSE IF ~isinstance(cur, "dict") \/ Head(parts) \notin DOMAIN cur.v
         THEN None
         ELSE get_by_parts(cur.v[Head(parts)], Tail(parts))

\* a variant of get_by_path that looks the whole path up as one key
get_by_path_unsplit(obj, dotted) == get_by_parts(obj, <<dotted>>)

get_by_path(obj, dotted) == get_by_parts(obj, split(dotted, "."))

\* a variant of is_non_empty_value that takes the truth value: "return bool(v)"
is_non_empty_value_truthy(v) ==
    IF v = None THEN FALSE
    ELSE IF isinstance(v, "str") THEN v.v # <<>>
    ELSE IF isinstance(v, "list") THEN Len(v.v) > 0
    ELSE IF isinstance(v, "dict") THEN Cardinality(DOMAIN v.v) > 0
    ELSE IF isinstance(v, "int") THEN v.v # 0
    ELSE v.v

is_non_empty_value(v) ==
    IF v = None THEN FALSE
    ELSE IF isinstance(v, "str") THEN strip(v.v) # <<>>
    ELSE IF isinstance(v, "list") \/ isinstance(v, "dict")
         THEN (IF isinstance(v, "list") THEN Len(v.v) ELSE Cardinality(DOMAIN v.v)) > 0
         ELSE TRUE

\* the loop of check_required_files over the templates from index i on
RECURSIVE missing_from(_, _, _)
missing_from(fs, e, i) ==
    IF i > Len(REQUIRED_FILES_BY_ENV) THEN <<>>
    ELSE LET rel_path == format(REQUIRED_FILES_BY_ENV[i], e)
         IN  (IF ~isfile(fs, rel_path) THEN <<rel_path>> ELSE <<>>)
             \o missing_from(fs, e, i + 1)

\* a variant of check_required_files that stops at the first missing file
check_required_files_first(fs, e) ==
    IF missing_from(fs, e, 1) = <<>> THEN <<>> ELSE <<Head(missing_from(fs, e, 1))>>

check_required_files(fs, e) == missing_from(fs, e, 1)


\* what load_json does: json.load raises (ex: the exception's text) or
\* returns the parsed value
Raises(ex) == [raises |-> TRUE, ex |-> ex]
Returns(data) == [raises |-> FALSE, data |-> data]

\* a variant of the loop that stops at the first offending key
key_issues_first(data) ==
    LET bad == {i \in 1..Len(REQUIRED_JSON_PATHS) :
                   ~is_non_empty_value(get_by_path(data, REQUIRED_JSON_PATHS[i]))}
    IN  IF bad = {} THEN <<>>
        ELSE LET i == CHOOSE j \in bad : \A k \in bad : j <= k
             IN  IF get_by_path(data, REQUIRED_JSON_PATHS[i]) = None
                 THEN << <<"Missing key: ">> \o REQUIRED_JSON_PATHS[i] >>
                 ELSE << <<"Empty value: ">> \o REQUIRED_JSON_PATHS[i] >>

\* the "required keys + non-empty" loop of check_json from index i on
RECURSIVE key_issues_from(_, _)
key_issues_from(data, i) ==
    IF i > Len(REQUIRED_JSON_PATHS) THEN <<>>
    ELSE LET p == REQUIRED_JSON_PATHS[i]
             v == get_by_path(data, p)
         IN  (IF v = None THEN << <<"Missing key: ">> \o p >>
              ELSE IF ~is_non_empty_value(v) THEN << <<"Empty value: ">> \o p >>
              ELSE <<>>)
             \o key_issues_from(data, i + 1)

key_issues(data) == key_issues_from(data, 1)

\* a variant of color_issue that matches the value as it is, untrimmed
color_issue_untrimmed(name, c) ==
    IF isinstance(c, "str") /\ ~HEX_COLOR_RE_match(c.v)
    THEN << <<"Invalid color ">> \o name \o <<" (expected #RRGGBB): ">> \o repr(c.v) >>
    ELSE <<>>

\* one "if isinstance(c, str) and not HEX_COLOR_RE.match(c.strip())" of check_json
color_issue(name, c) ==
    IF isinstance(c, "str") /\ ~HEX_COLOR_RE_match(strip(c.v))
    THEN << <<"Invalid color ">> \o name \o <<" (expected #RRGGBB): ">> \o repr(c.v) >>
    ELSE <<>>

color_issues(data) ==
    LET primary == get_by_path(data, Dotted("branding", "primaryColor"))
        accent == get_by_path(data, Dotted("branding", "accentColor"))
    IN  color_issue(Dotted("branding", "primaryColor"), primary)
        \o color_issue(Dotted("branding", "accentColor"), accent)

\* a variant of resolve_logo that takes the value as it is, untrimmed
resolve_logo_untrimmed(e, v) == <<"asset/", e, "/images/">> \o v

\* resolve_logo(v)[1]: relative to asset/<env>/images/
resolve_logo(e, v) == <<"asset/", e, "/images/">> \o strip(v)

\* one turn of the "for key, val in [...]" loop of check_json
logo_issue(fs, e, key, val) ==
    IF isinstance(val, "str") /\ strip(val.v) # <<>>
    THEN LET assumed == resolve_logo(e, val.v)
         IN  IF ~isfile(fs, assumed)
             THEN << key \o <<" points to ">> \o repr(val.v)
                        \o <<", but missing file at: ">> \o assumed >>
             ELSE <<>>
    ELSE <<>>

logo_issues(fs, e, data, flag) ==
    IF flag
    THEN LET logo == get_by_path(data, Dotted("branding", "logoUrl"))
             logo_dark == get_by_path(data, Dotted("branding", "logoDarkUrl"))
         IN  logo_issue(fs, e, Dotted("branding", "logoUrl"), logo)
             \o logo_issue(fs, e, Dotted("branding", "logoDarkUrl"), logo_dark)
    ELSE <<>>

\* a variant of check_json that goes on after a parse failure, with no data
check_json_no_return(fs, cont, e, flag) ==
    LET json_rel == <<e, ".json">>
    IN  IF ~isfile(fs, json_rel)
        THEN << <<"Missing JSON: ">> \o json_rel >>
        ELSE IF cont[e].raises
        THEN << <<"Invalid JSON (">> \o json_rel \o <<"): ">> \o cont[e].ex >>
             \o key_issues(EmptyDict)
        ELSE key_issues(cont[e].data)
             \o color_issues(cont[e].data)
             \o logo_issues(fs, e, cont[e].data, flag)

check_json(fs, cont, e, flag) ==
    LET json_rel == <<e, ".json">>
    IN  IF ~isfile(fs, json_rel)
        THEN << <<"Missing JSON: ">> \o json_rel >>
        ELSE IF cont[e].raises
        THEN << <<"Invalid JSON (">> \o json_rel \o <<"): ">> \o cont[e].ex >>
        ELSE key_issues(cont[e].data)
             \o color_issues(cont[e].data)
             \o logo_issues(fs, e, cont[e].data, flag)

-----------------------------------------------------------------------------
(* main.                                                                   *)

\* envs = ["production", "staging"] if args.env == "both" else [args.env]
selected_envs(a) == IF a = "both" THEN <<"production", "staging">> ELSE <<a>>

\* a variant of env_failed that looks at the missing files only
env_failed_files_only(m, j) == m # <<>>

\* "if missing_files or json_issues"
env_failed(m, j) == m # <<>> \/ j # <<>>

\* [f"  - {p}" for p in lines]
indented(lines) == [i \in 1..Len(lines) |-> <<"  - ">> \o lines[i]]

\* a variant of failure_header that leaves the name as it is
failure_header_plain(e) == <<"\n", "=== ", e, " CHECK FAILED ===">>

\* f"\n=== {env.upper()} CHECK FAILED ==="
failure_header(e) == <<"\n", "=== ", upper(e), " CHECK FAILED ===">>

\* the lines one failed environment adds to all_errors
failure_block(e, m, j) ==
    <<failure_header(e)>>
    \o (IF m # <<>> THEN << <<"Missing required files:">> >> \o indented(m) ELSE <<>>)
    \o (IF j # <<>> THEN << <<"JSON issues:">> >> \o indented(j) ELSE <<>>)

\* the atom "U+2705" stands for the check-mark character
ok_line(e) == <<"U+2705", " ", e, ": OK">>

NoCall == [made |-> FALSE]

\* argument parsing up to "all_errors = []"
ParseArgs ==
    /\ pc = "parse"
    /\ todo' = selected_envs(argv_env)
    /\ all_errors' = <<>>
    /\ pc' = "loop"
    /\ UNCHANGED <<files, content, argv_env, check_logo_files, env,
                   missing_files, json_issues, stdout, stderr, ret, call>>

\* one turn of the for loop whose environment fails
LoopFailed ==
    /\ pc = "loop"
    /\ todo # <<>>
    /\ LET e == Head(todo)
           m == check_required_files(files, e)
           j == check_json(files, content, e, check_logo_files)
       IN  /\ env_failed(m, j)
           /\ env' = e
           /\ missing_files' = m
           /\ json_issues' = j
           /\ all_errors' = all_errors \o failure_block(e, m, j)
    /\ todo' = Tail(todo)
    /\ UNCHANGED <<files, content, argv_env, check_logo_files, pc, stdout,
                   stderr, ret, call>>

\* one turn of the for loop whose environment passes
LoopOK ==
    /\ pc = "loop"
    /\ todo # <<>>
    /\ LET e == Head(todo)
           m == check_required_files(files, e)
           j == check_json(files, content, e, check_logo_files)
       IN  /\ ~env_failed(m, j)
           /\ env' = e
           /\ missing_files' = m
           /\ json_issues' = j
           /\ stdout' = Append(stdout, ok_line(e))
    /\ todo' = Tail(todo)
    /\ UNCHANGED <<files, content, argv_env, check_logo_files, pc, all_errors,
                   stderr, ret, call>>

\* "if all_errors: eprint(...); return 1" after the loop
ReturnFailure ==
    /\ pc = "loop"
    /\ todo = <<>>
    /\ all_errors # <<>>
    /\ stderr' = Append(stderr, join("\n", all_errors))
    /\ ret' = 1
    /\ pc' = "done"
    /\ UNCHANGED <<files, content, argv_env, check_logo_files, todo, env,
                   missing_files, json_issues, all_errors, stdout, call>>

\* "return 0" after the loop
ReturnSuccess ==
    /\ pc = "loop"
    /\ todo = <<>>
    /\ all_errors = <<>>
    /\ ret' = 0
    /\ pc' = "done"
    /\ UNCHANGED <<files, content, argv_env, check_logo_files, todo, env,
                   missing_files, json_issues, all_errors, stdout, stderr, call>>

Next == ParseArgs \/ LoopFailed \/ LoopOK \/ ReturnFailure \/ ReturnSuccess

\* the state main starts in, given the repo and the command line
Start(fs, cont, a, flag) ==
    /\ files = fs
    /\ content = cont
    /\ argv_env = a
    /\ check_logo_files = flag
    /\ pc = "parse"
    /\ todo = <<>>
    /\ env = "none"
    /\ missing_files = <<>>
    /\ json_issues = <<>>
    /\ all_errors = <<>>
    /\ stdout = <<>>
    /\ stderr = <<>>
    /\ ret = "none"
    /\ call = NoCall

-----------------------------------------------------------------------------
(* Repositories: the inputs main is run on.                                *)

Range(seq) == {seq[i] : i \in 1..Len(seq)}

\* subsets of S with at most n elements
RECURSIVE SubsetsUpTo(_, _)
SubsetsUpTo(S, n) ==
    IF n = 0 THEN {{}}
    ELSE LET smaller == SubsetsUpTo(S, n - 1)
         IN  smaller \cup {T \cup {x} : T \in smaller, x \in S}

\* the required relative paths of an environment
RequiredPaths(e) == {format(rel, e) : rel \in Range(REQUIRED_FILES_BY_ENV)}

\* a key that is not in its mapping (not a Python value)
Absent == [t |-> "absent"]

PathIndex == 1..Len(REQUIRED_JSON_PATHS)
Sections == {REQUIRED_JSON_PATHS[i][1] : i \in PathIndex}
IndexOf(sec, key) ==
    CHOOSE i \in PathIndex : REQUIRED_JSON_PATHS[i] = Dotted(sec, key)

\* the config whose i-th required key holds leaves[i] (Absent: no such key)
Doc(leaves) ==
    JDict([s \in {<<sec>> : sec \in Sections} |->
        JDict([k \in {<<REQUIRED_JSON_PATHS[i][3]>> : i \in
                        {j \in PathIndex : /\ REQUIRED_JSON_PATHS[j][1] = s[1]
                                           /\ leaves[j] # Absent}}
               |-> leaves[IndexOf(s[1], k[1])]])])

PrimaryIdx == IndexOf("branding", "primaryColor")
AccentIdx == IndexOf("branding", "accentColor")
LogoIdx == IndexOf("branding", "logoUrl")
LogoDarkIdx == IndexOf("branding", "logoDarkUrl")

\* a config that passes: every required key a non-empty string, both
\* colours well-formed, both logos file names
CleanLeaves ==
    [i \in PathIndex |->
        CASE i = PrimaryIdx -> JStr(<<"#", "1", "a", "F", "0", "9", "c">>)
          [] i = AccentIdx -> JStr(<<"#", "F", "F", "a", "a", "0", "0">>)
          [] i = LogoIdx -> JStr(<<"logo", ".", "png">>)
          [] i = LogoDarkIdx -> JStr(<<"logo-dark", ".", "png">>)
          [] OTHER -> JStr(<<"value">>)]

CleanDoc == Doc(CleanLeaves)

\* a config that passes with values that are no plain strings: numbers and
\* booleans (0 and false among them), a list, a mapping, padded colours, a
\* padded logo name
OddLeaves ==
    [i \in PathIndex |->
        CASE i = PrimaryIdx -> JStr(<<" ", "#", "0", "0", "0", "0", "0", "0", "\n">>)
          [] i = AccentIdx -> JStr(<<"\t", "#", "A", "B", "C", "D", "E", "F">>)
          [] i = LogoIdx -> JStr(<<" ", "logo", ".", "png", " ">>)
          [] i = LogoDarkIdx -> JList(<<JStr(<<"logo-dark", ".", "png">>)>>)
          [] i % 4 = 0 -> JNum(0)
          [] i % 4 = 1 -> JBool(FALSE)
          [] i % 4 = 2 -> JDict([k \in {<<"k">>} |-> None])
          [] OTHER -> JStr(<<"value">>)]

OddDoc == Doc(OddLeaves)

\* the files the logo fields of the clean configs point to
CleanLogoFiles(e) ==
    {resolve_logo(e, <<"logo", ".", "png">>), resolve_logo(e, <<"logo-dark", ".", "png">>)}

\* a complete repository for one environment
CleanFiles(e) == RequiredPaths(e) \cup CleanLogoFiles(e)

ParseError == <<"Expecting value: line 1 column 1 (char 0)">>

Flags == BOOLEAN
EnvArgs == {"production", "staging", "both"}

\* the repositories of Spec: each environment, independently of the other,
\* has one of a few configs, lacks none or one of its required files, and
\* has its logo files or lacks one
MainConfigs ==
    { Returns(CleanDoc), Returns(OddDoc), Raises(ParseError),
      Returns(Doc([CleanLeaves EXCEPT ![1] = Absent])),
      Returns(Doc([CleanLeaves EXCEPT ![PrimaryIdx] = JStr(<<"#", "Z", "Z", "Z", "Z", "Z", "Z">>)])) }

MainMissing(e) ==
    { {}, {format(REQUIRED_FILES_BY_ENV[1], e)},
      {format(REQUIRED_FILES_BY_ENV[Len(REQUIRED_FILES_BY_ENV)], e)} }

MainLogoMissing(e) == { {}, {resolve_logo(e, <<"logo", ".", "png">>)} }

MainFiles(e) ==
    { CleanFiles(e) \ (m \cup l) : m \in MainMissing(e), l \in MainLogoMissing(e) }

Init ==
    \E fp \in MainFiles("production"), fs \in MainFiles("staging"),
       cp \in MainConfigs, cs \in MainConfigs, a \in EnvArgs, flag \in Flags :
        Start(fp \cup fs, [e \in Envs |-> IF e = "production" THEN cp ELSE cs], a, flag)

Spec == Init /\ [][Next]_vars

\* the complete repository: both environments pass
AllFiles == CleanFiles("production") \cup CleanFiles("staging")
CleanContent == [e \in Envs |-> Returns(CleanDoc)]

\* the content of a repo whose environment e has config c, the other the clean one
ContentWith(e, c) == [x \in Envs |-> IF x = e THEN c ELSE Returns(CleanDoc)]

\* the k-th smallest element of a set of numbers
Nth(S, k) == CHOOSE i \in S : Cardinality({j \in S : j < i}) = k - 1

\* the repositories of SpecFiles: one environment lacks up to MaxMissing of
\* its required files, in every combination
InitFiles ==
    \E e \in Envs, a \in EnvArgs :
        \E m \in SubsetsUpTo(RequiredPaths(e), MaxMissing) :
            Start(AllFiles \ m, CleanContent, a, FALSE)

SpecFiles == InitFiles /\ [][Next]_vars

\* what a required key may hold instead of its clean value
DefectKinds == <<
    Absent,
    JStr(<<>>),
    None,
    JList(<<>>),
    JNum(0),
    JBool(FALSE),
    JStr(<<" ">>),
    EmptyDict,
    JStr(<<"\t", "\n">>),
    JList(<<None>>),
    JDict([k \in {<<>>} |-> None]),
    JStr(<<" ", "x", " ">>) >>

\* the leaves in which the keys of D deviate: the j-th of them, in the
\* order of the list, holds the (k + j - 1)-th kind, cyclically
DefectLeaves(D, k) ==
    [i \in PathIndex |->
        IF i \in D
        THEN DefectKinds[((k + Cardinality({j \in D : j < i}) - 1) % Len(DefectKinds)) + 1]
        ELSE CleanLeaves[i]]

KeyDocs ==
    {CleanDoc} \cup
    { Doc(DefectLeaves(D, k)) :
        D \in SubsetsUpTo(PathIndex, MaxDefects) \ {{}}, k \in 1..Len(DefectKinds) }

\* the clean config with section sec replaced by val (Absent: removed)
DocWithSection(sec, val) ==
    JDict([s \in {<<x>> : x \in IF val = Absent THEN Sections \ {sec} ELSE Sections} |->
              IF s = <<sec>> THEN val ELSE CleanDoc.v[s]])

\* configs whose top level or whose section is no mapping, or is missing
ShapeDocs ==
    { None, JList(<<>>), JList(<<CleanDoc>>), JStr(<<"branding">>), JNum(0),
      JBool(TRUE), EmptyDict }
    \cup { DocWithSection(sec, val) :
             sec \in Sections,
             val \in {Absent, None, JStr(<<"x">>), JList(<<>>), JNum(1), EmptyDict} }

\* the repositories of SpecKeys: every file in place, one environment's
\* config taken from KeyDocs or ShapeDocs
InitKeys ==
    \E e \in Envs, d \in KeyDocs \cup ShapeDocs :
        Start(AllFiles, ContentWith(e, Returns(d)), e, FALSE)

SpecKeys == InitKeys /\ [][Next]_vars

\* all strings over the alphabet of length at most n
RECURSIVE StringsUpTo(_, _)
StringsUpTo(alphabet, n) ==
    IF n = 0 THEN {<<>>}
    ELSE LET shorter == StringsUpTo(alphabet, n - 1)
         IN  shorter \cup {Append(w, c) : w \in shorter, c \in alphabet}

\* hexadecimal digits of both cases, to fill a colour with
ColorDigits == <<"0", "a", "F", "9", "f", "A", "5", "c", "E", "1", "b", "D">>

\* characters that are no hexadecimal digits: the neighbours of the digits
\* and of the letters in ASCII, a space and a "#"
OddChars == {"/", ":", "@", "G", "g", " ", "#"}

\* n digits, the i-th replaced by c when i > 0
DigitRun(n, i, c) == [k \in 1..n |-> IF k = i THEN c ELSE ColorDigits[k]]

\* the colour strings tried: up to two "#", up to MaxColorLen digits, at
\* most one of them replaced by a character of OddChars, padded or not
ColorStrings ==
    { l \o [k \in 1..h |-> "#"] \o body \o r :
        l \in {<<>>, <<" ">>},
        h \in 0..2,
        body \in UNION { {DigitRun(n, 0, "0")} \cup
                         {DigitRun(n, i, c) : i \in 1..n, c \in OddChars} :
                         n \in 0..MaxColorLen },
        r \in {<<>>, <<"\n">>} }

ColorValues ==
    {JStr(w) : w \in ColorStrings}
    \cup {Absent, None, JNum(0), JBool(TRUE), EmptyDict,
          JList(<<JStr(<<"#", "Z", "Z", "Z", "Z", "Z", "Z">>)>>)}

OtherColorValues ==
    { JStr(<<"#", "F", "F", "a", "a", "0", "0">>),
      JStr(<<"#", "Z", "Z", "Z", "Z", "Z", "Z">>),
      JNum(5) }

\* the repositories of SpecColor: every file in place; in the config of
\* production one colour field holds any of ColorValues, the other one of
\* OtherColorValues
InitColor ==
    \E f \in {PrimaryIdx, AccentIdx}, v \in ColorValues, w \in OtherColorValues :
        LET g == IF f = PrimaryIdx THEN AccentIdx ELSE PrimaryIdx
        IN  Start(AllFiles,
                  ContentWith("production",
                      Returns(Doc([CleanLeaves EXCEPT ![f] = v, ![g] = w]))),
                  "production", FALSE)

SpecColor == InitColor /\ [][Next]_vars

\* the logo values tried: every string of up to MaxLogoLen characters, the
\* clean name, and values that are no strings
LogoValues ==
    {JStr(w) : w \in StringsUpTo({"a", "b", " "}, MaxLogoLen)}
    \cup {JStr(<<"logo", ".", "png">>), Absent, None, JNum(1), JList(<<JStr(<<"a">>)>>)}

OtherLogoValues == {JStr(<<"logo-dark", ".", "png">>), JStr(<<" ", "a">>), JNum(1)}

\* the paths under asset/{env}/images/ a logo value may be looked up at:
\* the value as it is and the value trimmed (none for an empty name)
LogoCandidates(e, v) ==
    IF v = Absent \/ v.t # "str" THEN {}
    ELSE { <<"asset/", e, "/images/">> \o w : w \in {v.v, strip(v.v)} \ {<<>>} }

\* the repositories of SpecLogo: every required file in place; one logo
\* field holds any of LogoValues, the other one of OtherLogoValues, and any
\* of the files they may name exist
InitLogo ==
    \E e \in Envs, f \in {LogoIdx, LogoDarkIdx}, flag \in Flags :
        \E v \in LogoValues, w \in OtherLogoValues :
            \E images \in SUBSET (LogoCandidates(e, v) \cup LogoCandidates(e, w)) :
                LET g == IF f = LogoIdx THEN LogoDarkIdx ELSE LogoIdx
                IN  Start(RequiredPaths("production") \cup RequiredPaths("staging")
                              \cup images,
                          ContentWith(e, Returns(Doc([CleanLeaves EXCEPT ![f] = v, ![g] = w]))),
                          e, flag)

SpecLogo == InitLogo /\ [][Next]_vars

\* the documents get_by_path is called on directly: values that are no
\* mappings, and mappings nested up to three deep, with an empty key and a
\* key that holds a dot among their keys
Scalars == {None, JNum(0), JStr(<<"a">>), JList(<<JNum(0)>>)}
PathKeys == {<<"a">>, <<"b">>, <<>>, <<"a", ".", "b">>}
OneKey(k, v) == JDict([x \in {k} |-> v])
TwoKeys(v, w) == JDict([x \in {<<"a">>, <<"b">>} |-> IF x = <<"a">> THEN v ELSE w])
Depth1 ==
    {EmptyDict} \cup {OneKey(k, v) : k \in PathKeys, v \in Scalars}
    \cup {TwoKeys(v, w) : v \in Scalars, w \in Scalars}
Depth2 ==
    {OneKey(k, d) : k \in PathKeys \ {<<"a", ".", "b">>}, d \in Depth1}
    \cup {TwoKeys(OneKey(<<"b">>, v), w) : v \in Scalars, w \in Scalars}
Depth3 ==
    {OneKey(k, OneKey(<<>>, OneKey(<<"b">>, v))) : k \in {<<"a">>, <<>>}, v \in Scalars}
    \cup {OneKey(<<"a">>, OneKey(<<"b">>, TwoKeys(v, None))) : v \in Scalars}
PathDocs == Scalars \cup Depth1 \cup Depth2 \cup Depth3

\* the dotted paths get_by_path is called on directly
DottedPaths == StringsUpTo({"a", "b", "."}, MaxPathLen)

\* a call get_by_path(obj, dotted) returns
CallGetByPath ==
    /\ ~call.made
    /\ call' = [call EXCEPT !.made = TRUE,
                            !.result = get_by_path(call.obj, call.dotted)]
    /\ UNCHANGED <<files, content, argv_env, check_logo_files, pc, todo, env,
                   missing_files, json_issues, all_errors, stdout, stderr, ret>>

NextPath == CallGetByPath

InitPath ==
    \E o \in PathDocs, d \in DottedPaths :
        /\ files = AllFiles
        /\ content = CleanContent
        /\ argv_env = "both"
        /\ check_logo_files = FALSE
        /\ pc = "parse"
        /\ todo = <<>>
        /\ env = "none"
        /\ missing_files = <<>>
        /\ json_issues = <<>>
        /\ all_errors = <<>>
        /\ stdout = <<>>
        /\ stderr = <<>>
        /\ ret = "none"
        /\ call = [made |-> FALSE, obj |-> o, dotted |-> d, result |-> None]

SpecPath == InitPath /\ [][NextPath]_vars

-----------------------------------------------------------------------------
(* What the claims speak of, stated without the functions of the script.   *)

\* the environments --env selects
Selected == IF argv_env = "both" THEN Envs ELSE {argv_env}

\* the name of an environment in capitals
InCapitals(e) == IF e = "production" THEN "PRODUCTION" ELSE "STAGING"

\* pat occurs in text at position i
OccursAt(text, pat, i) ==
    /\ i + Len(pat) - 1 <= Len(text)
    /\ \A k \in 1..Len(pat) : text[i + k - 1] = pat[k]

\* how many times pat occurs in text
Count(text, pat) == Cardinality({i \in 1..Len(text) : OccursAt(text, pat, i)})

\* how many elements of the list equal x
CountIn(list, x) == Cardinality({i \in 1..Len(list) : list[i] = x})

\* everything written to the error stream, as one text
ErrorText == IF stderr = <<>> THEN <<>> ELSE join("\n", stderr)

\* the value the document stores under section a, key b; Absent when the
\* document, or its section a, is no mapping or lacks the key
Stored(data, p) ==
    LET a == <<p[1]>>
        b == <<p[3]>>
    IN  IF data.t = "dict" /\ a \in DOMAIN data.v
        THEN IF data.v[a].t = "dict" /\ b \in DOMAIN data.v[a].v
             THEN data.v[a].v[b]
             ELSE Absent
        ELSE Absent

\* a stored value that counts as empty: null, a blank string, an empty
\* list, an empty mapping
IsBlank(v) ==
    \/ v.t = "NoneType"
    \/ v.t = "str" /\ \A i \in 1..Len(v.v) : v.v[i] \in {" ", "\t", "\n", "\r", "\f"}
    \/ v.t = "list" /\ Len(v.v) = 0
    \/ v.t = "dict" /\ DOMAIN v.v = {}

Digits == {"0", "1", "2", "3", "4", "5", "6", "7", "8", "9"}
LettersAF == {"A", "B", "C", "D", "E", "F"}
Lettersaf == {"a", "b", "c", "d", "e", "f"}

\* s is, between leading and trailing whitespace, "#" and exactly six
\* hexadecimal digits of either case
IsHexColor(s) ==
    \E i \in 1..Len(s) :
        /\ i + 6 <= Len(s)
        /\ s[i] = "#"
        /\ \A k \in (i + 1)..(i + 6) : s[k] \in Digits \cup LettersAF \cup Lettersaf
        /\ \A k \in 1..Len(s) :
               (k < i \/ k > i + 6) => s[k] \in {" ", "\t", "\n", "\r", "\f"}

\* the config of environment e exists and parses
Parses(e) == <<e, ".json">> \in files /\ ~content[e].raises

\* the environment the loop has just checked passes
JustPassed == missing_files = <<>> /\ json_issues = <<>>

\* an iteration of the loop has run; env, missing_files and json_issues are its
Checked == env \in Envs

\* environment e has no missing file and no JSON issue
Passes(e) ==
    /\ check_required_files(files, e) = <<>>
    /\ check_json(files, content, e, check_logo_files) = <<>>

\* s without its leading and trailing whitespace
Trimmed(s) ==
    LET solid == {i \in 1..Len(s) : s[i] \notin {" ", "\t", "\n", "\r", "\f"}}
    IN  IF solid = {} THEN <<>>
        ELSE SubSeq(s, CHOOSE i \in solid : \A j \in solid : i <= j,
                       CHOOSE i \in solid : \A j \in solid : i >= j)

\* the file a logo value names: asset/{env}/images/<value, trimmed>
LogoFile(e, value) == <<"asset/", e, "/images/">> \o Trimmed(value)

LogoFields == {Dotted("branding", "logoUrl"), Dotted("branding", "logoDarkUrl")}
ColorFields == {Dotted("branding", "primaryColor"), Dotted("branding", "accentColor")}

\* the config of e has every required key present and non-empty and both
\* colours valid, and every required file of e exists
Complete(e) ==
    /\ Parses(e)
    /\ \A rel \in Range(REQUIRED_FILES_BY_ENV) :
           [i \in 1..Len(rel) |-> IF rel[i] = "{env}" THEN e ELSE rel[i]] \in files
    /\ \A p \in Range(REQUIRED_JSON_PATHS) :
           /\ Stored(content[e].data, p) # Absent
           /\ ~IsBlank(Stored(content[e].data, p))
    /\ \A p \in ColorFields :
           /\ Stored(content[e].data, p).t = "str"
           /\ IsHexColor(Stored(content[e].data, p).v)

\* every logo field of e that holds a string names an existing file
LogosExist(e) ==
    \A p \in LogoFields :
        Stored(content[e].data, p).t = "str"
            => LogoFile(e, Stored(content[e].data, p).v) \in files

-----------------------------------------------------------------------------
(* Claims checked under Spec.                                              *)

\* C1: main returns 0 if and only if every selected environment has an empty
\* missing-files list and an empty JSON-issues list, and 1 otherwise, for
\* every repo, --env selection and --check-logo-files value.
C1_ExitCode ==
    /\ pc # "done" => ret = "none"
    /\ pc = "done" => /\ ret \in {0, 1}
                      /\ ret = 0 <=> \A e \in Selected : Passes(e)

\* a run over both environments that returns 1 although production passes
C1_Witness ==
    /\ pc = "done"
    /\ argv_env = "both"
    /\ ret = 1
    /\ Passes("production")
    /\ ~Passes("staging")

\* C2: each selected environment produces exactly one output: its OK line on
\* standard output iff both its lists are empty, otherwise a failure block
\* under its header on the error stream; nothing about a passing environment
\* is written to the error stream.
C2_Outputs ==
    pc = "done" =>
        /\ Len(stderr) <= 1
        /\ \A i \in 1..Len(stdout) : \E e \in Selected : stdout[i] = <<"U+2705", " ", e, ": OK">>
        /\ \A e \in Envs :
            LET nOK == CountIn(stdout, <<"U+2705", " ", e, ": OK">>)
                nHeader == Count(ErrorText, <<"=== ", InCapitals(e), " CHECK FAILED ===">>)
            IN  IF e \in Selected /\ Passes(e)
                THEN /\ nOK = 1
                     /\ nHeader = 0
                     /\ \A k \in 1..Len(ErrorText) : ErrorText[k] \notin {e, InCapitals(e)}
                ELSE IF e \in Selected
                THEN /\ nOK = 0
                     /\ nHeader = 1
                     /\ \A x \in Range(check_required_files(files, e))
                              \cup Range(check_json(files, content, e, check_logo_files)) :
                            Count(ErrorText, <<"\n", "  - ">> \o x) >= 1
                ELSE nOK = 0 /\ nHeader = 0

\* --env both with production passing and staging failing
C2_Witness ==
    /\ pc = "done"
    /\ argv_env = "both"
    /\ Passes("production")
    /\ ~Passes("staging")
    /\ stdout = << <<"U+2705", " ", "production", ": OK">> >>
    /\ Len(stderr) = 1
    /\ Count(ErrorText, <<"=== ", "STAGING", " CHECK FAILED ===">>) = 1

\* C3 as claimed: a complete environment passes, whatever the logo flag.
C3_AsClaimed == Checked /\ Complete(env) => JustPassed

\* C3, amended: a complete environment passes when the logo flag is off, or
\* when it is on and every logo field that holds a string names an existing
\* file under asset/{env}/images/.
C3_CompletePasses ==
    Checked /\ Complete(env) /\ (check_logo_files => LogosExist(env)) => JustPassed

\* a complete environment checked with the flag on, its logo files in place
C3_Witness ==
    /\ Checked
    /\ Complete(env)
    /\ check_logo_files
    /\ LogosExist(env)
    /\ content[env].data = OddDoc
    /\ JustPassed

\* C7: a missing config file yields the single issue "Missing JSON:
\* {env}.json", a config that fails to parse the single issue reporting the
\* parse error; in both cases the list has one entry and no key, colour or
\* logo issue, whatever the flag.
C7_ConfigUnreadable ==
    Checked /\ ~Parses(env) =>
        /\ Len(json_issues) = 1
        /\ IF <<env, ".json">> \notin files
           THEN json_issues[1] = <<"Missing JSON: ", env, ".json">>
           ELSE /\ SubSeq(json_issues[1], 1, 4) = <<"Invalid JSON (", env, ".json", "): ">>
                /\ SubSeq(json_issues[1], 5, Len(json_issues[1])) = content[env].ex
        /\ \A k \in 1..Len(json_issues[1]) :
               json_issues[1][k] \notin
                   {"Missing key: ", "Empty value: ", "Invalid color ", " points to "}

\* a run with the flag on in which production.json is missing and
\* staging.json does not parse, at the end of the check of staging
C7_Witness ==
    /\ Checked
    /\ env = "staging"
    /\ argv_env = "both"
    /\ check_logo_files
    /\ <<"production", ".json">> \notin files
    /\ <<"staging", ".json">> \in files
    /\ content["staging"].raises
    /\ Len(json_issues) = 1

-----------------------------------------------------------------------------
(* Claims checked under SpecFiles.                                         *)

\* C4: check_required_files returns exactly the required paths of the
\* environment at which no regular file exists, each once, in the order of
\* the fixed list, a missing path never hiding a later one; and the
\* environment fails whenever a required file is missing.
C4_MissingFiles ==
    Checked =>
        LET required == [i \in 1..Len(REQUIRED_FILES_BY_ENV) |->
                            [k \in 1..Len(REQUIRED_FILES_BY_ENV[i]) |->
                                IF REQUIRED_FILES_BY_ENV[i][k] = "{env}" THEN env
                                ELSE REQUIRED_FILES_BY_ENV[i][k]]]
            absent == {i \in 1..Len(required) : required[i] \notin files}
        IN  /\ Len(missing_files) = Cardinality(absent)
            /\ \A k \in 1..Len(missing_files) : missing_files[k] = required[Nth(absent, k)]
            /\ absent # {} =>
                   /\ CountIn(stdout, <<"U+2705", " ", env, ": OK">>) = 0
                   /\ CountIn(all_errors, <<"\n", "=== ", InCapitals(env), " CHECK FAILED ===">>) = 1
                   /\ pc = "done" => ret = 1

\* an environment that lacks its second and its last required file: both
\* are reported, in that order
C4_Witness ==
    /\ Checked
    /\ missing_files = << format(REQUIRED_FILES_BY_ENV[2], env),
                          format(REQUIRED_FILES_BY_ENV[Len(REQUIRED_FILES_BY_ENV)], env) >>
    /\ json_issues = <<>>
    /\ pc = "done"

-----------------------------------------------------------------------------
(* Claims checked under SpecKeys.                                          *)

\* the issue of the list that reports a missing or an empty key
IsPresenceIssue(x) == x[1] \in {"Missing key: ", "Empty value: "}

\* the required keys of the checked config that are missing or empty
Offending ==
    {i \in PathIndex :
        \/ Stored(content[env].data, REQUIRED_JSON_PATHS[i]) = Absent
        \/ IsBlank(Stored(content[env].data, REQUIRED_JSON_PATHS[i]))}

\* C5 as claimed: one presence issue per offending required key, in the
\* order of the list: "Missing key" when the path does not resolve, "Empty
\* value" when it resolves to an empty value.
C5_AsClaimed ==
    Checked /\ Parses(env) =>
        LET presence == SelectSeq(json_issues, IsPresenceIssue)
        IN  /\ Len(presence) = Cardinality(Offending)
            /\ \A k \in 1..Len(presence) :
                   LET p == REQUIRED_JSON_PATHS[Nth(Offending, k)]
                   IN  presence[k] =
                           IF Stored(content[env].data, p) = Absent
                           THEN <<"Missing key: ">> \o p
                           ELSE <<"Empty value: ">> \o p

\* C5, amended: one presence issue per offending required key, in the order
\* of the list: "Missing key" when the path does not resolve or resolves to
\* null, "Empty value" when it resolves to a blank string, an empty list or
\* an empty mapping; no presence issue for any other key.
C5_PresenceIssues ==
    Checked /\ Parses(env) =>
        LET presence == SelectSeq(json_issues, IsPresenceIssue)
        IN  /\ Len(presence) = Cardinality(Offending)
            /\ \A k \in 1..Len(presence) :
                   LET p == REQUIRED_JSON_PATHS[Nth(Offending, k)]
                   IN  presence[k] =
                           IF \/ Stored(content[env].data, p) = Absent
                              \/ Stored(content[env].data, p).t = "NoneType"
                           THEN <<"Missing key: ">> \o p
                           ELSE <<"Empty value: ">> \o p

\* a config with a missing key before an empty one: both are reported
C5_Witness ==
    /\ Checked
    /\ Parses(env)
    /\ Cardinality(Offending) = 2
    /\ \E i, j \in Offending :
           /\ i < j
           /\ Stored(content[env].data, REQUIRED_JSON_PATHS[i]) = Absent
           /\ Stored(content[env].data, REQUIRED_JSON_PATHS[j]) = JStr(<<>>)
    /\ SelectSeq(json_issues, IsPresenceIssue)[1][1] = "Missing key: "
    /\ SelectSeq(json_issues, IsPresenceIssue)[2][1] = "Empty value: "

\* C9: a required key draws a presence issue exactly when its value is
\* not found or null, an empty or whitespace-only string, an empty list or
\* an empty mapping; a number or a boolean, 0 and false included, draws none.
C9_EmptyValues ==
    Checked /\ Parses(env) =>
        \A i \in PathIndex :
            LET p == REQUIRED_JSON_PATHS[i]
                v == Stored(content[env].data, p)
                reported == \E k \in 1..Len(json_issues) :
                                json_issues[k] \in {<<"Missing key: ">> \o p,
                                                    <<"Empty value: ">> \o p}
                blank == \/ v = Absent
                         \/ v.t = "NoneType"
                         \/ v.t = "str" /\ Trimmed(v.v) = <<>>
                         \/ v.t = "list" /\ Len(v.v) = 0
                         \/ v.t = "dict" /\ Cardinality(DOMAIN v.v) = 0
            IN  /\ reported <=> blank
                /\ v.t \in {"int", "bool"} => ~reported

\* a config in which one required key holds 0 and another false, and
\* neither is reported
C9_Witness ==
    /\ Checked
    /\ Parses(env)
    /\ \E i, j \in PathIndex :
           /\ Stored(content[env].data, REQUIRED_JSON_PATHS[i]) = JNum(0)
           /\ Stored(content[env].data, REQUIRED_JSON_PATHS[j]) = JBool(FALSE)
    /\ SelectSeq(json_issues, IsPresenceIssue) = <<>>

-----------------------------------------------------------------------------
(* Claims checked under SpecColor.                                         *)

\* the colour issues of the list that name the field p
ColorIssuesOf(p) ==
    {k \in 1..Len(json_issues) :
        /\ json_issues[k][1] = "Invalid color "
        /\ SubSeq(json_issues[k], 2, 4) = p}

\* C6: each of branding.primaryColor and branding.accentColor draws exactly
\* one colour issue, naming the field and its value, if its value is a
\* string that, trimmed, is not "#" and six hexadecimal digits of either
\* case, and none if it matches or is no string, whatever the other field.
C6_ColorIssues ==
    Checked /\ Parses(env) =>
        /\ \A p \in ColorFields :
            LET v == Stored(content[env].data, p)
            IN  IF v.t = "str" /\ ~IsHexColor(v.v)
                THEN /\ Cardinality(ColorIssuesOf(p)) = 1
                     /\ \A k \in ColorIssuesOf(p) :
                            json_issues[k] =
                                <<"Invalid color ">> \o p
                                \o <<" (expected #RRGGBB): ", "'">> \o v.v \o <<"'">>
                ELSE ColorIssuesOf(p) = {}
        /\ \A k \in 1..Len(json_issues) :
               json_issues[k][1] = "Invalid color " =>
                   \E p \in ColorFields : k \in ColorIssuesOf(p)

\* primaryColor "#ZZZZZZ" with everything else valid: the one issue is the
\* colour issue of branding.primaryColor
C6_Witness ==
    /\ Checked
    /\ Parses(env)
    /\ Stored(content[env].data, Dotted("branding", "primaryColor"))
           = JStr(<<"#", "Z", "Z", "Z", "Z", "Z", "Z">>)
    /\ json_issues =
           << <<"Invalid color ", "branding", ".", "primaryColor",
                " (expected #RRGGBB): ", "'", "#", "Z", "Z", "Z", "Z", "Z", "Z", "'">> >>

-----------------------------------------------------------------------------
(* Claims checked under SpecLogo.                                          *)

\* the logo issues of the list that name the field p
LogoIssuesOf(p) ==
    {k \in 1..Len(json_issues) :
        /\ Len(json_issues[k]) > 4
        /\ SubSeq(json_issues[k], 1, 4) = p \o <<" points to ">>}

\* the issue of field p, holding the string value, for the missing file at path
LogoIssue(p, value, path) ==
    p \o <<" points to ", "'">> \o value \o <<"'", ", but missing file at: ">> \o path

\* C8 as claimed: with the flag off no logo issue; with it on, a logo field
\* draws exactly one issue iff its value is a non-blank string and no file
\* exists at asset/{env}/images/<value>.
C8_AsClaimed ==
    Checked /\ Parses(env) =>
        \A p \in LogoFields :
            LET v == Stored(content[env].data, p)
            IN  IF /\ check_logo_files
                   /\ v.t = "str"
                   /\ ~IsBlank(v)
                   /\ <<"asset/", env, "/images/">> \o v.v \notin files
                THEN Cardinality(LogoIssuesOf(p)) = 1
                ELSE LogoIssuesOf(p) = {}

\* C8, amended: with the flag off no logo issue; with it on, a logo field
\* draws exactly one issue iff its value is a non-blank string and no file
\* exists at asset/{env}/images/<value trimmed of surrounding whitespace>;
\* the issue names the field, the value as it is and that path.
C8_LogoIssues ==
    Checked /\ Parses(env) =>
        /\ \A p \in LogoFields :
            LET v == Stored(content[env].data, p)
            IN  IF /\ check_logo_files
                   /\ v.t = "str"
                   /\ ~IsBlank(v)
                   /\ LogoFile(env, v.v) \notin files
                THEN /\ Cardinality(LogoIssuesOf(p)) = 1
                     /\ \A k \in LogoIssuesOf(p) :
                            json_issues[k] = LogoIssue(p, v.v, LogoFile(env, v.v))
                ELSE LogoIssuesOf(p) = {}
        /\ ~check_logo_files =>
               \A k \in 1..Len(json_issues) : \A i \in 1..Len(json_issues[k]) :
                   json_issues[k][i] # " points to "

\* logoUrl "logo.png" in production, the flag on and the file absent
C8_Witness ==
    /\ Checked
    /\ env = "production"
    /\ check_logo_files
    /\ Stored(content[env].data, Dotted("branding", "logoUrl")) = JStr(<<"logo", ".", "png">>)
    /\ \E k \in 1..Len(json_issues) :
           json_issues[k] =
               <<"branding", ".", "logoUrl", " points to ", "'", "logo", ".", "png", "'",
                 ", but missing file at: ", "asset/", "production", "/images/",
                 "logo", ".", "png">>

-----------------------------------------------------------------------------
(* Claims checked under SpecPath.                                          *)

\* the positions of the dots of a path, with 0 before and one past the end
Breaks(dotted) ==
    {0, Len(dotted) + 1} \cup {i \in 1..Len(dotted) : dotted[i] = "."}

\* the segments of a dotted path: what lies between two breaks
Segments(dotted) ==
    [k \in 1..(Cardinality(Breaks(dotted)) - 1) |->
        SubSeq(dotted, Nth(Breaks(dotted), k) + 1, Nth(Breaks(dotted), k + 1) - 1)]

\* where the first n segments lead from obj: the value reached, if every one
\* of them is a key of the mapping reached before it
RECURSIVE Reached(_, _, _)
Reached(obj, segs, n) ==
    IF n = 0 THEN [found |-> TRUE, value |-> obj]
    ELSE LET before == Reached(obj, segs, n - 1)
         IN  IF /\ before.found
                /\ before.value.t = "dict"
                /\ segs[n] \in DOMAIN before.value.v
             THEN [found |-> TRUE, value |-> before.value.v[segs[n]]]
             ELSE [found |-> FALSE, value |-> None]

\* C10: get_by_path returns the value stored at the path when every segment
\* resolves through mappings, and None when a segment is absent or the value
\* reached before it is no mapping, for a document of any shape.
C10_GetByPath ==
    call.made =>
        LET segs == Segments(call.dotted)
            end == Reached(call.obj, segs, Len(segs))
        IN  call.result = IF end.found THEN end.value ELSE None

\* a path of three segments that resolves, through an empty key, to a value
C10_Witness ==
    /\ call.made
    /\ call.dotted = <<"a", ".", ".", "b">>
    /\ Reached(call.obj, Segments(call.dotted), 3).found
    /\ call.result = JNum(0)

=============================================================================
